---- MODULE Spec2Model ----
(***************************************************************************)
(* Model of ss_eventlet.green._patch_package_module, of the module-level   *)
(* code of ss_eventlet.green that uses it, of the helpers of               *)
(* ss_eventlet.utils and of ss_eventlet.wrappers.safe_timeouts.            *)
(*                                                                         *)
(* sys.modules and _currently_patched_packages are dictionaries: they are  *)
(* functions whose DOMAIN is the set of keys present.  Module names are    *)
(* strings: they are sequences of one-character strings, so that split,    *)
(* join and startswith are computed and not assumed.  Module objects are   *)
(* triples <<kind, name, serial>>; two objects are the same object iff the *)
(* triples are equal.  Modules registered in sys.modules are objects, not  *)
(* None.                                                                   *)
(*                                                                         *)
(* eventlet.patcher.SysModulesSaver, eventlet.import_patched and           *)
(* importlib.import_module are library calls; they are modelled at their   *)
(* call sites by what the calls do to sys.modules and to the import lock.  *)
(***************************************************************************)
EXTENDS Integers, Sequences, FiniteSets, TLC

VARIABLES sys_modules, currently_patched_packages, import_lock, frames,
          opened, savers, last, loader, call

vars == <<sys_modules, currently_patched_packages, import_lock, frames,
          opened, savers, last, loader, call>>

(* ---------------------------- bounds ---------------------------------- *)

\* Threads that request scopes.
NumThreads == 2

\* Scope requests made in one behaviour, over all threads.
MaxScopes == 2

Threads == 1..NumThreads

(* ---------------------------- names ----------------------------------- *)

Dot == "."

\* The test packages: package a with children a.b and a.c, module b, module d.
nA == <<"a">>
nAB == <<"a", ".", "b">>
nAC == <<"a", ".", "c">>
nB == <<"b">>
nD == <<"d">>

\* The modules ss_eventlet.green patches when it is loaded, a module of the
\* requests package, and a core module they import.
nHttp == <<"http">>
nHttpClient == <<"http", ".", "client">>
nHttplib2 == <<"httplib2">>
nRequests == <<"requests">>
nRequestsApi == <<"requests", ".", "api">>
nSocket == <<"socket">>

\* The empty string and None, both falsy in Python.
EmptyName == <<>>
NoneName == <<"None">>

\* Names a caller passes as module_name.
RequestNames == {nA, nAB, nB, EmptyName, NoneName}

\* A test that lets None through.
FalsyEmptyOnly(name) == name = EmptyName

\* `not module_name`
Falsy(name) == name = EmptyName \/ name = NoneName

\* str.startswith
StartsWith(s, prefix) ==
    /\ Len(s) >= Len(prefix)
    /\ SubSeq(s, 1, Len(prefix)) = prefix

\* Index of the first separator in s, or 0.
RECURSIVE FindSep(_, _)
FindSep(s, from) ==
    IF from > Len(s) THEN 0
    ELSE IF s[from] = Dot THEN from
    ELSE FindSep(s, from + 1)

\* str.split('.'): the sequence of segments of s.
RECURSIVE Split(_)
Split(s) ==
    LET p == FindSep(s, 1) IN
    IF p = 0 THEN <<s>>
    ELSE <<SubSeq(s, 1, p - 1)>> \o Split(SubSeq(s, p + 1, Len(s)))

\* A join that puts the segment before its ancestor.
Join2Reversed(ancestor, name) == name \o <<Dot>> \o ancestor

\* '.'.join((ancestor, name))
Join2(ancestor, name) == ancestor \o <<Dot>> \o name

\* The body of the loop of iter_ancestor_module_names over the segments.
RECURSIVE AncestorLoop(_, _, _)
AncestorLoop(segments, k, ancestor) ==
    IF k > Len(segments) THEN <<>>
    ELSE LET next == IF k = 1 THEN segments[k]
                     ELSE Join2(ancestor, segments[k])
         IN <<next>> \o AncestorLoop(segments, k + 1, next)

\* list(utils.iter_ancestor_module_names(module_name)) for a truthy name;
\* a falsy name raises ValueError (see Request).
iter_ancestor_module_names(module_name) ==
    AncestorLoop(Split(module_name), 1, <<>>)

\* A match on the package's name without the separator.
iter_descendent_module_names_no_separator(m, package) ==
    {name \in DOMAIN m : StartsWith(name, package)}

\* set(utils.iter_descendent_module_names(package)) over the dictionary m.
iter_descendent_module_names(m, package) ==
    LET prefix == package \o <<Dot>> IN
    {name \in DOMAIN m : name = package \/ StartsWith(name, prefix)}

\* A deletion that takes an entry bound to None for an absent one.
delete_sys_modules_loaded_only(m, names) ==
    [name \in (DOMAIN m) \ {n \in names \cap DOMAIN m :
                                 m[n] # <<"None", <<>>, 0>>} |-> m[name]]

\* utils.delete_sys_modules(names) applied to the dictionary m.
delete_sys_modules(m, names) ==
    [name \in (DOMAIN m) \ names |-> m[name]]

(* -------------------------- module objects ---------------------------- *)

\* The object a name was bound to before the program's first scope.
Orig(name) == <<"orig", name, 0>>

\* A module object created by an import made in scope number serial.
Fresh(kind, name, serial) == <<kind, name, serial>>

\* Python's None, as SysModulesSaver records an absent module.
None == <<"None", <<>>, 0>>

\* The import statements in the body of each module, in order: package a
\* imports its child a.c, child a.b imports d; http.client imports socket,
\* httplib2 imports http.client, the requests package imports its module
\* requests.api, which comes to import http.client.
ModuleImports(name) ==
    IF name = nA THEN <<nAC>>
    ELSE IF name = nAB THEN <<nD>>
    ELSE IF name = nHttpClient THEN <<nSocket>>
    ELSE IF name = nHttplib2 THEN <<nHttpClient>>
    ELSE IF name = nRequests THEN <<nRequestsApi>>
    ELSE IF name = nRequestsApi THEN <<nHttpClient>>
    ELSE <<>>

\* The import system: import `name` into the dictionary m, parents first;
\* a module already registered is not executed again, a new one is
\* registered and then its body's imports run.
RECURSIVE ImportChain(_, _, _, _, _)
RECURSIVE ImportAll(_, _, _, _, _)
ImportChain(m, chain, k, kind, serial) ==
    IF k > Len(chain) THEN m
    ELSE IF chain[k] \in DOMAIN m
         THEN ImportChain(m, chain, k + 1, kind, serial)
    ELSE LET registered == (chain[k] :> Fresh(kind, chain[k], serial)) @@ m
             loaded == ImportAll(registered, ModuleImports(chain[k]), 1,
                                 kind, serial)
         IN ImportChain(loaded, chain, k + 1, kind, serial)
ImportAll(m, names, k, kind, serial) ==
    IF k > Len(names) THEN m
    ELSE ImportAll(
             ImportChain(m, iter_ancestor_module_names(names[k]), 1,
                         kind, serial),
             names, k + 1, kind, serial)

\* A discovery that is skipped when the provider has the patched module
\* cached.
import_module_cached(m, module_name, serial) ==
    IF <<"__patched_module_">> \o module_name \in DOMAIN m THEN m
    ELSE ImportChain(m, iter_ancestor_module_names(module_name), 1, "plain",
                     serial)

\* importlib.import_module(module_name) that returns.
import_module(m, module_name, serial) ==
    ImportChain(m, iter_ancestor_module_names(module_name), 1, "plain",
                serial)

\* importlib.import_module(module_name) that raises ImportError while
\* loading the failAt-th element of the lineage: the elements before it
\* stay imported.
import_module_fails(m, module_name, failAt, serial) ==
    ImportChain(m, SubSeq(iter_ancestor_module_names(module_name), 1,
                          failAt - 1), 1, "plain", serial)

\* The key under which eventlet caches the patched module `name`.
PatchedName(name) == <<"__patched_module_">> \o name

\* dict.get(name, None)
Get(m, name) == IF name \in DOMAIN m THEN m[name] ELSE None

\* d[name] = value
Put(m, name, value) == (name :> value) @@ m

\* A restore that puts saved modules back but leaves in place the names
\* that were absent when they were saved.
RestoreSavedLeavesAdded(m, saved) ==
    [name \in (DOMAIN m) \cup {n \in DOMAIN saved : saved[n] # None} |->
        IF name \in DOMAIN saved /\ saved[name] # None
        THEN saved[name] ELSE m[name]]

\* SysModulesSaver.restore() without the lock: every saved name gets its
\* saved module back, or is removed when None was saved.
RestoreSaved(m, saved) ==
    [name \in ((DOMAIN m) \cup {n \in DOMAIN saved : saved[n] # None})
                 \ {n \in DOMAIN saved : saved[n] = None} |->
        IF name \in DOMAIN saved THEN saved[name] ELSE m[name]]

\* SysModulesSaver.save(*names): records sys.modules.get(name, None).
SaveNames(saved, m, names) ==
    [name \in (DOMAIN saved) \cup names |->
        IF name \in names THEN Get(m, name) ELSE saved[name]]

\* A provider that never reuses its cached module.
import_patched_uncached(m, name, serial) ==
    LET before == Get(m, name)
        unloaded == delete_sys_modules(m,
            {name} \cup iter_descendent_module_names(m, name))
        imported == ImportChain(unloaded,
            iter_ancestor_module_names(name), 1, "patched", serial)
        module == imported[name]
        cached == Put(imported, PatchedName(name), module)
    IN [modules |-> RestoreSaved(cached, (name :> before)),
        module |-> module]

\* eventlet.import_patched(name) that returns: the cached patched module if
\* there is one; otherwise name and its submodules are unloaded, name is
\* imported afresh, the new module is cached under PatchedName(name), and
\* the previous binding of name is put back.
import_patched(m, name, serial) ==
    IF PatchedName(name) \in DOMAIN m
    THEN [modules |-> m, module |-> m[PatchedName(name)]]
    ELSE LET before == Get(m, name)
             unloaded == delete_sys_modules(m,
                 {name} \cup iter_descendent_module_names(m, name))
             imported == ImportChain(unloaded,
                 iter_ancestor_module_names(name), 1, "patched", serial)
             module == imported[name]
             cached == Put(imported, PatchedName(name), module)
         IN [modules |-> RestoreSaved(cached, (name :> before)),
             module |-> module]

\* eventlet.import_patched(name) that raises: nothing is cached, and the
\* previous binding of name is put back.
import_patched_fails(m, name) ==
    LET before == Get(m, name)
        unloaded == delete_sys_modules(m,
            {name} \cup iter_descendent_module_names(m, name))
    IN RestoreSaved(unloaded, (name :> before))

(* ----------------------------- state ----------------------------------- *)

\* The dictionary with no keys.
EmptyDict == [name \in {} |-> None]

\* No thread holds the import lock.
NoThread == 0

\* The registry contents a program can start from: every registered module
\* has its package and the modules its body imports registered too, and d
\* is loaded by a.b only.
InitialKeySets ==
    {keys \in SUBSET {nA, nAB, nAC, nB, nD} :
        /\ nA \in keys <=> nAC \in keys
        /\ nAB \in keys => nA \in keys
        /\ nAB \in keys <=> nD \in keys}

\* The call of _patch_package_module a thread is in: the generator's local
\* variables, the statement it is at (pc), and what is recorded of its past
\* (pre, base, outer_roots, acquired, releases, produced, raised,
\* inner_roots, inner_raised, inner_rejected, disordered, conflict).
NewFrame(module_name) ==
    [serial |-> 0,
     module_name |-> module_name,
     ancestors |-> iter_ancestor_module_names(module_name),
     pc |-> "saver",
     saved |-> EmptyDict,
     new_modules |-> {},
     i |-> 1,
     produced |-> EmptyDict,
     yielded |-> None,
     raised |-> "none",
     pre |-> EmptyDict,
     acquired |-> FALSE,
     releases |-> 0,
     base |-> EmptyDict,
     outer_roots |-> {},
     inner_roots |-> {},
     inner_raised |-> FALSE,
     inner_rejected |-> FALSE,
     disordered |-> FALSE,
     conflict |-> "none"]

\* What is recorded of the call that ended most recently.
NoCall ==
    [serial |-> 0, module_name |-> EmptyName,
     ancestors |-> <<>>, raised |-> "no call", alone |-> TRUE,
     base |-> EmptyDict, outer_roots |-> {},
     pre |-> EmptyDict, post |-> EmptyDict, saved |-> EmptyDict,
     new_modules |-> {}, produced |-> EmptyDict, yielded |-> None,
     acquired |-> FALSE, releases |-> 0, entered |-> FALSE,
     inner_roots |-> {}, inner_raised |-> FALSE, inner_rejected |-> FALSE,
     disordered |-> FALSE, conflict |-> "none",
     guard_after |-> EmptyDict, lock_after |-> [owner |-> NoThread, count |-> 0]]

\* ss_eventlet.green is not being loaded.
NotLoading == [pc |-> "not loading", before |-> EmptyDict,
               installed |-> {}, depth |-> 0, httplib |-> None,
               httplib2 |-> None, requests |-> None]

\* No helper has been called directly.
NoHelperCall == [fn |-> "none"]

Init ==
    /\ \E keys \in InitialKeySets :
           sys_modules = [name \in keys |-> Orig(name)]
    /\ currently_patched_packages = EmptyDict
    /\ import_lock = [owner |-> NoThread, count |-> 0]
    /\ frames = [t \in Threads |-> <<>>]
    /\ opened = 0
    /\ savers = 0
    /\ last = NoCall
    /\ loader = NotLoading
    /\ call = NoHelperCall

\* The frames of thread t that are executing the function's code (not
\* suspended at the yield): at most one.
RunningFrames(t) == {k \in 1..Len(frames[t]) : frames[t][k].pc # "open"}

\* Thread t runs the caller's code: none of its calls is executing.
InCaller(t) == RunningFrames(t) = {}

\* The executing frame of thread t, at statement pc.
At(t, pc) ==
    /\ RunningFrames(t) # {}
    /\ frames[t][CHOOSE k \in RunningFrames(t) : TRUE].pc = pc

Cur(t) == CHOOSE k \in RunningFrames(t) : TRUE

Frame(t) == frames[t][Cur(t)]

root_module(f) == f.ancestors[1]

\* set(ancestors)
Lineage(f) == {f.ancestors[k] : k \in 1..Len(f.ancestors)}

\* The frames of t with the k-th removed.
Without(t, k) ==
    SubSeq(frames[t], 1, k - 1) \o SubSeq(frames[t], k + 1, Len(frames[t]))

\* The frames of t with the k-th removed (none for k = 0) and, in the
\* others, the note that a call made inside them raised before it yielded
\* (and that it was rejected by the guard check, when it was).
NoteRaised(t, k) ==
    LET rest == IF k = 0 THEN frames[t] ELSE Without(t, k)
        rejected == k # 0 /\ frames[t][k].raised = "RuntimeError"
    IN [j \in 1..Len(rest) |->
           [rest[j] EXCEPT !.inner_raised = TRUE,
                           !.inner_rejected = @ \/ rejected]]

\* A lock that is not reentrant: its owner waits for it too.
LockFreeNotReentrant(t) == import_lock.owner = NoThread

\* A lock that never makes a thread wait.
LockFreeAlways(t) == TRUE

\* imp.acquire_lock(): the import lock is reentrant.
LockFree(t) == import_lock.owner \in {NoThread, t}

\* An acquisition that does not make the thread the owner.
AcquireLockUnowned(t) == [owner |-> NoThread, count |-> import_lock.count + 1]

AcquireLock(t) == [owner |-> t, count |-> import_lock.count + 1]

\* A release that gives the lock up whatever the number of acquisitions.
ReleaseLockAll == [owner |-> NoThread, count |-> 0]

\* A restore that does not release the lock.
ReleaseLockNever == import_lock

\* imp.release_lock()
ReleaseLock ==
    IF import_lock.count = 1
    THEN [owner |-> NoThread, count |-> 0]
    ELSE [import_lock EXCEPT !.count = @ - 1]

\* Whether a scope of the root of module_name is open when thread t asks
\* for module_name, and whose it is.
Conflict(t, module_name) ==
    LET root == iter_ancestor_module_names(module_name)[1]
        Open(u) == \E k \in 1..Len(frames[u]) :
                       /\ frames[u][k].pc = "open"
                       /\ root_module(frames[u][k]) = root
    IN IF Open(t) THEN "same thread"
       ELSE IF \E u \in Threads \ {t} : Open(u) THEN "other thread"
       ELSE "none"

(* ---------------------------- actions --------------------------------- *)

\* green.py:80-83.  A caller enters _patch_package_module(module_name): a
\* falsy name raises ValueError out of the call, any other name computes the
\* lineage and goes on to create the saver.
Request(t, module_name) ==
    /\ InCaller(t)
    /\ opened < MaxScopes
    /\ opened' = opened + 1
    /\ IF Falsy(module_name)
       THEN /\ last' = [NoCall EXCEPT
                           !.alone = frames[t] = <<>>,
                           !.module_name = module_name,
                           !.raised = "ValueError"]
            /\ frames' = [frames EXCEPT ![t] = NoteRaised(t, 0)]
       ELSE /\ frames' = [frames EXCEPT
                             ![t] = Append(@, [NewFrame(module_name) EXCEPT
                                       !.conflict = Conflict(t, module_name)])]
            /\ UNCHANGED last
    /\ UNCHANGED <<loader, call>>
    /\ UNCHANGED <<sys_modules, currently_patched_packages, import_lock,
                   savers>>

\* green.py:87.  saver = eventlet.patcher.SysModulesSaver(): takes the
\* import lock, waiting while another thread holds it.
CreateSaver(t) ==
    /\ At(t, "saver")
    /\ LockFree(t)
    /\ import_lock' = AcquireLock(t)
    /\ savers' = savers + 1
    /\ frames' = [frames EXCEPT ![t][Cur(t)] =
                     [@ EXCEPT !.pc = "check", !.pre = sys_modules,
                               !.serial = savers + 1,
                               !.base = IF Cur(t) = 1 THEN sys_modules
                                        ELSE frames[t][1].base,
                               !.outer_roots =
                                   {root_module(frames[t][k]) :
                                        k \in 1..(Cur(t) - 1)}]]
    /\ UNCHANGED <<loader, call>>
    /\ UNCHANGED <<sys_modules, currently_patched_packages, opened, last>>

\* A guard check whose raise sits inside the inner try, so that the inner
\* finally clause runs for the rejected call.
CheckGuardRaisesInside(t) ==
    /\ At(t, "check")
    /\ frames' = [frames EXCEPT ![t][Cur(t)] =
                     IF root_module(@) \in DOMAIN currently_patched_packages
                     THEN [@ EXCEPT !.pc = "release", !.raised = "RuntimeError"]
                     ELSE [@ EXCEPT !.pc = "install"]]
    /\ UNCHANGED <<loader, call>>
    /\ UNCHANGED <<sys_modules, currently_patched_packages, import_lock,
                   opened, savers, last>>

\* A guard check made after the entry was written: the rejected call has
\* put its own target into the guard.
CheckGuardOverwrites(t) ==
    /\ At(t, "check")
    /\ IF root_module(Frame(t)) \in DOMAIN currently_patched_packages
       THEN /\ currently_patched_packages' =
                   Put(currently_patched_packages, root_module(Frame(t)),
                       Frame(t).module_name)
            /\ frames' = [frames EXCEPT ![t][Cur(t)] =
                   [@ EXCEPT !.pc = "restore", !.raised = "RuntimeError"]]
       ELSE /\ frames' = [frames EXCEPT ![t][Cur(t)] =
                   [@ EXCEPT !.pc = "install"]]
            /\ UNCHANGED currently_patched_packages
    /\ UNCHANGED <<loader, call>>
    /\ UNCHANGED <<sys_modules, import_lock, opened, savers, last>>

\* A guard check that never finds the root patched.
CheckGuardNever(t) ==
    /\ At(t, "check")
    /\ frames' = [frames EXCEPT ![t][Cur(t)] = [@ EXCEPT !.pc = "install"]]
    /\ UNCHANGED <<loader, call>>
    /\ UNCHANGED <<sys_modules, currently_patched_packages, import_lock,
                   opened, savers, last>>

\* green.py:94-99.  The root is already being patched: RuntimeError, raised
\* inside the outer try only, so control goes to saver.restore().
CheckGuard(t) ==
    /\ At(t, "check")
    /\ frames' = [frames EXCEPT ![t][Cur(t)] =
                     IF root_module(@) \in DOMAIN currently_patched_packages
                     THEN [@ EXCEPT !.pc = "restore", !.raised = "RuntimeError"]
                     ELSE [@ EXCEPT !.pc = "install"]]
    /\ UNCHANGED <<loader, call>>
    /\ UNCHANGED <<sys_modules, currently_patched_packages, import_lock,
                   opened, savers, last>>

\* green.py:100.  _currently_patched_packages[root_module] = module_name
InstallGuard(t) ==
    /\ At(t, "install")
    /\ currently_patched_packages' =
           Put(currently_patched_packages, root_module(Frame(t)),
               Frame(t).module_name)
    /\ frames' = [frames EXCEPT ![t][Cur(t)] =
                     [@ EXCEPT !.pc = "save", !.acquired = TRUE]]
    /\ UNCHANGED <<loader, call>>
    /\ UNCHANGED <<sys_modules, import_lock, opened, savers, last>>

\* green.py:102-104.  original_modules = set(sys.modules) plus module_name;
\* saver.save(*original_modules)
SaveOriginal(t) ==
    /\ At(t, "save")
    /\ LET original_modules == (DOMAIN sys_modules) \cup {Frame(t).module_name}
       IN frames' = [frames EXCEPT ![t][Cur(t)] =
              [@ EXCEPT !.pc = "discover",
                        !.saved = SaveNames(@, sys_modules, original_modules)]]
    /\ UNCHANGED <<loader, call>>
    /\ UNCHANGED <<sys_modules, currently_patched_packages, import_lock,
                   opened, savers, last>>

\* green.py:109.  importlib.import_module(module_name) returns.
DiscoverReturns(t) ==
    /\ At(t, "discover")
    /\ sys_modules' =
           import_module(sys_modules, Frame(t).module_name, Frame(t).serial)
    /\ frames' = [frames EXCEPT ![t][Cur(t)] = [@ EXCEPT !.pc = "freeze"]]
    /\ UNCHANGED <<loader, call>>
    /\ UNCHANGED <<currently_patched_packages, import_lock, opened, savers, last>>

\* green.py:109.  importlib.import_module(module_name) raises while loading
\* an element of the lineage that is not registered yet; the exception
\* leaves through both finally clauses.
DiscoverRaises(t) ==
    /\ At(t, "discover")
    /\ \E failAt \in 1..Len(Frame(t).ancestors) :
          /\ Frame(t).ancestors[failAt] \notin DOMAIN sys_modules
          /\ sys_modules' =
                 import_module_fails(sys_modules, Frame(t).module_name,
                                     failAt, Frame(t).serial)
    /\ frames' = [frames EXCEPT ![t][Cur(t)] =
                     [@ EXCEPT !.pc = "release", !.raised = "ImportError"]]
    /\ UNCHANGED <<loader, call>>
    /\ UNCHANGED <<currently_patched_packages, import_lock, opened, savers, last>>

\* A freeze that saves the new modules while they are still registered.
FrozenBeforeDelete(saved, m, new_modules) == SaveNames(saved, m, new_modules)

\* A freeze that deletes the new modules and saves none of them.
FrozenUnsaved(saved, m, new_modules) == saved

\* green.py:111-112.  What the saver holds after
\* utils.delete_sys_modules(new_modules); saver.save(*new_modules)
Frozen(saved, m, new_modules) ==
    SaveNames(saved, delete_sys_modules(m, new_modules), new_modules)

\* green.py:110-112.  new_modules = set(sys.modules) - original_modules;
\* utils.delete_sys_modules(new_modules); saver.save(*new_modules).
\* original_modules is the set of names the saver holds at this point.
FreezeNew(t) ==
    /\ At(t, "freeze")
    /\ LET original_modules == DOMAIN Frame(t).saved
           new_modules == (DOMAIN sys_modules) \ original_modules
           deleted == delete_sys_modules(sys_modules, new_modules)
       IN /\ sys_modules' = deleted
          /\ frames' = [frames EXCEPT ![t][Cur(t)] =
                 [@ EXCEPT !.pc = "evict",
                           !.new_modules = new_modules,
                           !.saved = Frozen(@, sys_modules, new_modules)]]
    /\ UNCHANGED <<loader, call>>
    /\ UNCHANGED <<currently_patched_packages, import_lock, opened, savers, last>>

\* An eviction of every registered module, not of the root's only.
EvictEverything(t) ==
    /\ At(t, "evict")
    /\ sys_modules' = EmptyDict
    /\ frames' = [frames EXCEPT ![t][Cur(t)] =
                     [@ EXCEPT !.pc = "patch", !.i = 1]]
    /\ UNCHANGED <<loader, call>>
    /\ UNCHANGED <<currently_patched_packages, import_lock, opened, savers, last>>

\* An eviction of the root alone, not of the modules under it.
EvictRootOnly(t) ==
    /\ At(t, "evict")
    /\ sys_modules' = delete_sys_modules(sys_modules, {root_module(Frame(t))})
    /\ frames' = [frames EXCEPT ![t][Cur(t)] =
                     [@ EXCEPT !.pc = "patch", !.i = 1]]
    /\ UNCHANGED <<loader, call>>
    /\ UNCHANGED <<currently_patched_packages, import_lock, opened, savers, last>>

\* green.py:114-115.  utils.delete_sys_modules(
\*     list(utils.iter_descendent_module_names(root_module)))
EvictDescendants(t) ==
    /\ At(t, "evict")
    /\ sys_modules' =
           delete_sys_modules(sys_modules,
               iter_descendent_module_names(sys_modules, root_module(Frame(t))))
    /\ frames' = [frames EXCEPT ![t][Cur(t)] =
                     [@ EXCEPT !.pc = "patch", !.i = 1]]
    /\ UNCHANGED <<loader, call>>
    /\ UNCHANGED <<currently_patched_packages, import_lock, opened, savers, last>>

\* An iteration that calls the provider and does not bind its result.
InstallPatchedUnbound(m, name, serial) ==
    LET r == import_patched(m, name, serial)
    IN [modules |-> r.modules, module |-> r.module]

\* The registry after one iteration of green.py:121-122,
\* sys.modules[name] = eventlet.import_patched(name)
InstallPatched(m, name, serial) ==
    LET r == import_patched(m, name, serial)
    IN [modules |-> Put(r.modules, name, r.module), module |-> r.module]

\* green.py:121-122, an iteration in which import_patched returns.
PatchReturns(t) ==
    /\ At(t, "patch")
    /\ LET f == Frame(t)
           name == f.ancestors[f.i]
           r == InstallPatched(sys_modules, name, f.serial)
       IN /\ sys_modules' = r.modules
          /\ frames' = [frames EXCEPT ![t][Cur(t)] =
                 [@ EXCEPT !.i = @ + 1,
                           !.produced = Put(@, name, r.module),
                           !.pc = IF f.i = Len(f.ancestors)
                                  THEN "evict_unpatched" ELSE "patch"]]
    /\ UNCHANGED <<loader, call>>
    /\ UNCHANGED <<currently_patched_packages, import_lock, opened, savers, last>>

\* green.py:121-122, an iteration in which import_patched raises (it has no
\* cached module to return); the exception leaves through both finally
\* clauses.
PatchRaises(t) ==
    /\ At(t, "patch")
    /\ LET f == Frame(t)
           name == f.ancestors[f.i]
       IN /\ PatchedName(name) \notin DOMAIN sys_modules
          /\ sys_modules' = import_patched_fails(sys_modules, name)
    /\ frames' = [frames EXCEPT ![t][Cur(t)] =
                     [@ EXCEPT !.pc = "release", !.raised = "ProviderError"]]
    /\ UNCHANGED <<loader, call>>
    /\ UNCHANGED <<currently_patched_packages, import_lock, opened, savers, last>>

\* An eviction set that spares the target module only.
UnpatchedButTarget(m, f) ==
    iter_descendent_module_names(m, root_module(f)) \ {f.module_name}

\* green.py:128-129.
\* set(utils.iter_descendent_module_names(root_module)) - set(ancestors)
Unpatched(m, f) ==
    iter_descendent_module_names(m, root_module(f)) \ Lineage(f)

\* A final eviction that deletes nothing.
EvictUnpatchedSkipped(t) ==
    /\ At(t, "evict_unpatched")
    /\ frames' = [frames EXCEPT ![t][Cur(t)] = [@ EXCEPT !.pc = "yield"]]
    /\ UNCHANGED <<loader, call>>
    /\ UNCHANGED <<sys_modules, currently_patched_packages, import_lock,
                   opened, savers, last>>

\* green.py:127-129.  utils.delete_sys_modules(
\*     set(utils.iter_descendent_module_names(root_module)) - set(ancestors))
EvictUnpatched(t) ==
    /\ At(t, "evict_unpatched")
    /\ sys_modules' =
           delete_sys_modules(sys_modules, Unpatched(sys_modules, Frame(t)))
    /\ frames' = [frames EXCEPT ![t][Cur(t)] = [@ EXCEPT !.pc = "yield"]]
    /\ UNCHANGED <<loader, call>>
    /\ UNCHANGED <<currently_patched_packages, import_lock, opened, savers, last>>

\* green.py:130.  yield sys.modules[module_name]: the call is suspended and
\* the caller's body runs.
Yield(t) ==
    /\ At(t, "yield")
    /\ frames' = [frames EXCEPT ![t] =
           [k \in 1..Len(@) |->
               IF k = Cur(t)
               THEN [@[k] EXCEPT !.pc = "open",
                                 !.yielded = sys_modules[Frame(t).module_name]]
               ELSE [@[k] EXCEPT !.inner_roots =
                                     @ \cup {root_module(Frame(t))}]]]
    /\ UNCHANGED <<loader, call>>
    /\ UNCHANGED <<sys_modules, currently_patched_packages, import_lock,
                   opened, savers, last>>

\* The k-th call of thread t is resumed at its yield, by the end of the
\* with block (outcome "none") or by an exception of the body; byHand tells
\* that the call is not the innermost one.
Resume(t, k, outcome, byHand) ==
    /\ InCaller(t)
    /\ k \in 1..Len(frames[t])
    /\ frames' = [frames EXCEPT ![t] =
           [j \in 1..Len(@) |->
               IF j = k
               THEN [@[j] EXCEPT !.pc = "release", !.raised = outcome,
                                 !.disordered = @ \/ byHand]
               ELSE [@[j] EXCEPT !.disordered = @ \/ byHand]]]
    /\ UNCHANGED <<loader, call>>
    /\ UNCHANGED <<sys_modules, currently_patched_packages, import_lock,
                   opened, savers, last>>

\* green.py:130-131.  The with block of the innermost open scope ends.
ExitScope(t) ==
    \E outcome \in {"none", "BodyError"} :
        Resume(t, Len(frames[t]), outcome, FALSE)

\* green.py:130-131.  __exit__ is called by hand on a scope that is not the
\* innermost one the thread has open.
ExitOutOfOrder(t) ==
    \E k \in 1..(Len(frames[t]) - 1) : Resume(t, k, "none", TRUE)

\* A finally clause that forgets the del.
ReleaseGuardKeeps(t) ==
    /\ At(t, "release")
    /\ frames' = [frames EXCEPT ![t][Cur(t)] = [@ EXCEPT !.pc = "restore"]]
    /\ UNCHANGED <<loader, call>>
    /\ UNCHANGED <<sys_modules, currently_patched_packages, import_lock,
                   opened, savers, last>>

\* green.py:131-132.  finally: del _currently_patched_packages[root_module]
ReleaseGuard(t) ==
    /\ At(t, "release")
    /\ currently_patched_packages' =
           delete_sys_modules(currently_patched_packages,
                              {root_module(Frame(t))})
    /\ frames' = [frames EXCEPT ![t][Cur(t)] =
                     [@ EXCEPT !.pc = "restore", !.releases = @ + 1]]
    /\ UNCHANGED <<loader, call>>
    /\ UNCHANGED <<sys_modules, import_lock, opened, savers, last>>

\* green.py:133-134.  finally: saver.restore(): puts the saved modules back
\* and releases the import lock; the call is over.
Restore(t) ==
    /\ At(t, "restore")
    /\ LET f == Frame(t)
           restored == RestoreSaved(sys_modules, f.saved)
           released == ReleaseLock
       IN /\ sys_modules' = restored
          /\ import_lock' = released
          /\ last' = [serial |-> f.serial,
                      module_name |-> f.module_name,
                      ancestors |-> f.ancestors, raised |-> f.raised,
                      pre |-> f.pre, base |-> f.base,
                      outer_roots |-> f.outer_roots,
                      alone |-> Len(frames[t]) = 1,
                      post |-> restored, saved |-> f.saved,
                      new_modules |-> f.new_modules,
                      produced |-> f.produced, yielded |-> f.yielded,
                      acquired |-> f.acquired, releases |-> f.releases,
                      entered |-> f.yielded # None,
                      inner_roots |-> f.inner_roots,
                      inner_raised |-> f.inner_raised,
                      inner_rejected |-> f.inner_rejected,
                      disordered |-> f.disordered,
                      conflict |-> f.conflict,
                      guard_after |-> currently_patched_packages,
                      lock_after |-> released]
    /\ frames' = [frames EXCEPT ![t] =
           IF Frame(t).yielded = None
           THEN NoteRaised(t, Cur(t))
           ELSE Without(t, Cur(t))]
    /\ UNCHANGED <<loader, call>>
    /\ UNCHANGED <<currently_patched_packages, opened, savers>>

\* The steps of a thread that uses the function in with statements.
Step(t) ==
    \/ \E module_name \in RequestNames : Request(t, module_name)
    \/ CreateSaver(t)
    \/ CheckGuard(t)
    \/ InstallGuard(t)
    \/ SaveOriginal(t)
    \/ DiscoverReturns(t)
    \/ DiscoverRaises(t)
    \/ FreezeNew(t)
    \/ EvictDescendants(t)
    \/ PatchReturns(t)
    \/ PatchRaises(t)
    \/ EvictUnpatched(t)
    \/ Yield(t)
    \/ ExitScope(t)
    \/ ReleaseGuard(t)
    \/ Restore(t)

Next == \E t \in Threads : Step(t)

Spec == Init /\ [][Next]_vars

\* The steps of the calls of thread t that depend on the thread being
\* scheduled only: every step but the caller's decision to make a request,
\* the discovery import and the provider calls.
Proceeds(t) ==
    \/ CreateSaver(t)
    \/ CheckGuard(t)
    \/ InstallGuard(t)
    \/ SaveOriginal(t)
    \/ FreezeNew(t)
    \/ EvictDescendants(t)
    \/ EvictUnpatched(t)
    \/ Yield(t)
    \/ ExitScope(t)
    \/ ReleaseGuard(t)
    \/ Restore(t)

\* importlib.import_module (green.py:109) and eventlet.import_patched
\* (green.py:122) return or raise: no thread stays in one of them for ever.
ImportsEnd(t) ==
    /\ []<>(~At(t, "discover"))
    /\ []<>(~At(t, "patch"))

\* The program starts with none of the packages imported.
FairInit == Init /\ sys_modules = EmptyDict

\* Threads that are scheduled fairly, with with blocks that terminate: a
\* thread that can go on with a call, or leave the body of its innermost
\* scope, eventually does.  Making a request is left to the caller.
SpecFair ==
    /\ FairInit
    /\ [][Next]_vars
    /\ \A t \in Threads : WF_vars(Proceeds(t)) /\ ImportsEnd(t)

\* Callers that also call __enter__ and __exit__ by hand, in any order.
NextByHand == \E t \in Threads : Step(t) \/ ExitOutOfOrder(t)

SpecByHand == Init /\ [][NextByHand]_vars

(* ------------------- helpers called directly -------------------------- *)

\* The longest module name passed to iter_ancestor_module_names.
MaxNameLen == 5

\* The characters of those names.
NameChars == {"a", "b", Dot}

\* The strings of at most n characters.
Strings(n) == UNION {[1..k -> NameChars] : k \in 0..n}

\* Arguments of iter_ancestor_module_names: any string, or None.
AncestorArguments == Strings(MaxNameLen) \cup {NoneName}

\* Keys of the dictionaries the helpers of utils are run on: a package, its
\* child, a name that starts with the package's name and one that ends
\* with it.
nAb == <<"a", "b">>
nXA == <<"x", ".", "a">>
HelperKeys == {nA, nAB, nAb, nXA}

\* Arguments of iter_descendent_module_names.
PackageArguments == {nA, nAb, nAB, <<"x">>}

\* list(iter_ancestor_module_names(module_name)) is evaluated.
CallAncestors(module_name) ==
    /\ call = NoHelperCall
    /\ call' = IF Falsy(module_name)
               THEN [fn |-> "iter_ancestor_module_names",
                     module_name |-> module_name,
                     raised |-> "ValueError", result |-> <<>>]
               ELSE [fn |-> "iter_ancestor_module_names",
                     module_name |-> module_name,
                     raised |-> "none",
                     result |-> iter_ancestor_module_names(module_name)]
    /\ UNCHANGED <<sys_modules, currently_patched_packages, import_lock,
                   frames, opened, savers, last, loader>>

\* set(iter_descendent_module_names(package)) is evaluated.
CallDescendants(package) ==
    /\ call = NoHelperCall
    /\ call' = [fn |-> "iter_descendent_module_names",
                package |-> package,
                result |-> iter_descendent_module_names(sys_modules, package)]
    /\ UNCHANGED <<sys_modules, currently_patched_packages, import_lock,
                   frames, opened, savers, last, loader>>

\* delete_sys_modules(names) is called.
CallDelete(names) ==
    /\ call = NoHelperCall
    /\ sys_modules' = delete_sys_modules(sys_modules, names)
    /\ call' = [fn |-> "delete_sys_modules", names |-> names,
                raised |-> "none", calls |-> 1,
                before |-> sys_modules,
                first |-> delete_sys_modules(sys_modules, names)]
    /\ UNCHANGED <<currently_patched_packages, import_lock,
                   frames, opened, savers, last, loader>>

\* delete_sys_modules is called once more with the names of the call
\* before.
CallDeleteAgain ==
    /\ call.fn = "delete_sys_modules"
    /\ call.calls = 1
    /\ sys_modules' = delete_sys_modules(sys_modules, call.names)
    /\ call' = [call EXCEPT !.calls = 2]
    /\ UNCHANGED <<currently_patched_packages, import_lock,
                   frames, opened, savers, last, loader>>

\* A class Timeout that derives from eventlet.Timeout only.
TimeoutBasesNoException == {"eventlet.Timeout"}

\* timeout.py:6.  class Timeout(eventlet.Timeout, Exception)
TimeoutBases == {"eventlet.Timeout", "Exception"}

\* The base classes of the exception classes a wrapped callable raises:
\* eventlet.Timeout derives from BaseException, SubTimeout is a subclass of
\* eventlet.Timeout defined by a caller.
Bases(class) ==
    IF class = "ss_eventlet.Timeout" THEN TimeoutBases
    ELSE IF class = "SubTimeout" THEN {"eventlet.Timeout"}
    ELSE IF class = "eventlet.Timeout" THEN {"BaseException"}
    ELSE IF class = "ValueError" THEN {"Exception"}
    ELSE IF class = "KeyboardInterrupt" THEN {"BaseException"}
    ELSE IF class = "Exception" THEN {"BaseException"}
    ELSE {}

\* The classes an instance of class is an instance of.
RECURSIVE Mro(_)
Mro(class) == {class} \cup UNION {Mro(base) : base \in Bases(class)}

\* isinstance(e, class)
isinstance(e, class) == class \in Mro(e.class)

\* The exception objects a wrapped callable raises, and the values it
\* returns.
ExceptionClasses == {"ss_eventlet.Timeout", "SubTimeout", "eventlet.Timeout",
                     "ValueError", "KeyboardInterrupt"}
Raisers == [kind : {"raise"},
            value : [class : ExceptionClasses, id : {1, 2}]]
Returners == [kind : {"return"}, value : {"x", "y"}]

\* Timeout(), the instance six.reraise(Timeout, None, tb) creates.
NewTimeout == [class |-> "ss_eventlet.Timeout", id |-> 0]

\* A wrapper that casts every eventlet timeout, also one that is an
\* Exception already.
wrapped_casts_all(outcome) ==
    IF outcome.kind = "raise" /\ isinstance(outcome.value, "eventlet.Timeout")
    THEN [kind |-> "raise", value |-> NewTimeout]
    ELSE outcome

\* wrappers.py:24-34.  wrapped(*args, **kwargs), for the outcome of
\* fn(*args, **kwargs).
wrapped(outcome) ==
    IF outcome.kind = "raise" /\ isinstance(outcome.value, "eventlet.Timeout")
    THEN IF isinstance(outcome.value, "Exception")
         THEN outcome
         ELSE [kind |-> "raise", value |-> NewTimeout]
    ELSE outcome

\* safe_timeouts(fn)(...) is called, fn ending with outcome.
CallWrapped(outcome) ==
    /\ call = NoHelperCall
    /\ call' = [fn |-> "safe_timeouts", inner |-> outcome,
                outer |-> wrapped(outcome)]
    /\ UNCHANGED <<sys_modules, currently_patched_packages, import_lock,
                   frames, opened, savers, last, loader>>

\* The dictionaries the helpers are run on: any keys, bound to a module or
\* to None.
HelpersInit ==
    /\ \E keys \in SUBSET HelperKeys : \E nones \in SUBSET keys :
          sys_modules = [name \in keys |->
                            IF name \in nones THEN None ELSE Orig(name)]
    /\ currently_patched_packages = EmptyDict
    /\ import_lock = [owner |-> NoThread, count |-> 0]
    /\ frames = [t \in Threads |-> <<>>]
    /\ opened = 0
    /\ savers = 0
    /\ last = NoCall
    /\ loader = NotLoading
    /\ call = NoHelperCall

HelpersNext ==
    \/ \E module_name \in AncestorArguments : CallAncestors(module_name)
    \/ \E package \in PackageArguments : CallDescendants(package)
    \/ \E names \in SUBSET (HelperKeys \cup {<<"x">>}) : CallDelete(names)
    \/ CallDeleteAgain
    \/ \E outcome \in Raisers \cup Returners : CallWrapped(outcome)

\* The helpers of ss_eventlet.utils and ss_eventlet.wrappers, called
\* directly: one call on a dictionary of modules, and for
\* delete_sys_modules the same call once more.
SpecHelpers == HelpersInit /\ [][HelpersNext]_vars

(* ----------------- loading ss_eventlet.green -------------------------- *)

\* The thread that imports ss_eventlet.green.
LoaderThread == 1

\* What sys.modules can hold before ss_eventlet.green is loaded: a
\* registered module has its package and the modules it imports registered.
LoadKeySets ==
    {keys \in SUBSET {nHttp, nHttpClient, nSocket, nHttplib2, nRequests,
                      nRequestsApi} :
        /\ nHttpClient \in keys => {nHttp, nSocket} \subseteq keys
        /\ nHttplib2 \in keys => nHttpClient \in keys
        /\ nRequests \in keys <=> nRequestsApi \in keys
        /\ nRequestsApi \in keys => nHttpClient \in keys}

\* ss_eventlet.green starts to load in a process where httplib2 and
\* requests are installed or not.
LoadInit ==
    /\ \E keys \in LoadKeySets :
          \E installed \in SUBSET {nHttplib2, nRequests} :
              /\ keys \cap {nHttplib2, nRequests} \subseteq installed
              /\ sys_modules = [name \in keys |-> Orig(name)]
              /\ loader = [NotLoading EXCEPT
                               !.pc = "137",
                               !.before = [name \in keys |-> Orig(name)],
                               !.installed = installed]
    /\ currently_patched_packages = EmptyDict
    /\ import_lock = [owner |-> NoThread, count |-> 0]
    /\ frames = [t \in Threads |-> <<>>]
    /\ opened = 0
    /\ savers = 0
    /\ last = NoCall
    /\ call = NoHelperCall

\* The module-level code is at the statement of line pc and no call of
\* _patch_package_module is executing.
LoaderAt(pc) == loader.pc = pc /\ InCaller(LoaderThread)

\* The call made last has yielded and is the innermost of the loader.
Entered ==
    /\ InCaller(LoaderThread)
    /\ Len(frames[LoaderThread]) = loader.depth + 1
    /\ frames[LoaderThread][loader.depth + 1].pc = "open"

\* _patch_package_module(module_name) is called: the generator is created
\* and __enter__ starts it.
CallPatch(module_name) ==
    /\ frames' = [frames EXCEPT ![LoaderThread] =
                     Append(@, NewFrame(module_name))]
    /\ opened' = opened + 1

\* A context manager that stays referenced: its generator is not closed.
CloseNever(fs) == fs

\* The context manager whose __enter__ has returned is referenced no more:
\* reference counting deallocates it and its generator at once, which
\* closes the generator: GeneratorExit is raised at the yield and the
\* finally clauses run.
Close(fs) ==
    [fs EXCEPT ![Len(fs)] = [@ EXCEPT !.pc = "release",
                                       !.raised = "GeneratorExit"]]

\* green.py:137-155.  importlib.import_module('http.client') succeeds;
\* _patch_httplib is _patch_package_module for 'http.client'.
LoadTryHttpClient ==
    /\ LoaderAt("137")
    /\ sys_modules' = import_module(sys_modules, nHttpClient, 0)
    /\ loader' = [loader EXCEPT !.pc = "158"]
    /\ UNCHANGED <<currently_patched_packages, import_lock, frames, opened,
                   savers, last, call>>

\* green.py:158.  _patch_httplib().__enter__() is called.
LoadPatchHttplib ==
    /\ LoaderAt("158")
    /\ CallPatch(nHttpClient)
    /\ loader' = [loader EXCEPT !.pc = "158 entering",
                                !.depth = Len(frames[LoaderThread])]
    /\ UNCHANGED <<sys_modules, currently_patched_packages, import_lock,
                   savers, last, call>>

\* green.py:158.  __enter__ returns the patched http.client, which is
\* bound to httplib; the context manager is dropped.
LoadHttplibEntered ==
    /\ loader.pc = "158 entering"
    /\ Entered
    /\ frames' = [frames EXCEPT ![LoaderThread] = Close(@)]
    /\ loader' = [loader EXCEPT
                      !.pc = "160",
                      !.httplib = frames[LoaderThread][loader.depth + 1].yielded]
    /\ UNCHANGED <<sys_modules, currently_patched_packages, import_lock,
                   opened, savers, last, call>>

\* green.py:160-164.  importlib.import_module('httplib2') raises
\* ImportError when httplib2 is not installed.
LoadTryHttplib2 ==
    /\ LoaderAt("160")
    /\ IF nHttplib2 \in loader.installed
       THEN /\ sys_modules' = import_module(sys_modules, nHttplib2, 0)
            /\ loader' = [loader EXCEPT !.pc = "165"]
       ELSE /\ loader' = [loader EXCEPT !.pc = "170"]
            /\ UNCHANGED sys_modules
    /\ UNCHANGED <<currently_patched_packages, import_lock, frames, opened,
                   savers, last, call>>

\* green.py:165.  with _patch_httplib():
LoadWithHttplib ==
    /\ LoaderAt("165")
    /\ CallPatch(nHttpClient)
    /\ loader' = [loader EXCEPT !.pc = "165 entering",
                                !.depth = Len(frames[LoaderThread])]
    /\ UNCHANGED <<sys_modules, currently_patched_packages, import_lock,
                   savers, last, call>>

\* green.py:166-167.  The body of the with statement,
\* httplib2 = eventlet.import_patched('httplib2'), and the end of the with
\* block.
LoadWithBody ==
    /\ loader.pc = "165 entering"
    /\ Entered
    /\ LET f == frames[LoaderThread][loader.depth + 1]
           r == import_patched(sys_modules, nHttplib2, f.serial)
       IN /\ sys_modules' = r.modules
          /\ loader' = [loader EXCEPT !.pc = "170", !.httplib2 = r.module]
    /\ frames' = [frames EXCEPT ![LoaderThread][loader.depth + 1] =
                     [@ EXCEPT !.pc = "release", !.raised = "none"]]
    /\ UNCHANGED <<currently_patched_packages, import_lock, opened, savers,
                   last, call>>

\* green.py:170-174.  importlib.import_module('requests') raises
\* ImportError when requests is not installed.
LoadTryRequests ==
    /\ LoaderAt("170")
    /\ IF nRequests \in loader.installed
       THEN /\ sys_modules' = import_module(sys_modules, nRequests, 0)
            /\ loader' = [loader EXCEPT !.pc = "175"]
       ELSE /\ loader' = [loader EXCEPT !.pc = "loaded"]
            /\ UNCHANGED sys_modules
    /\ UNCHANGED <<currently_patched_packages, import_lock, frames, opened,
                   savers, last, call>>

\* green.py:175.  _patch_package_module('requests').__enter__() is called.
LoadPatchRequests ==
    /\ LoaderAt("175")
    /\ CallPatch(nRequests)
    /\ loader' = [loader EXCEPT !.pc = "175 entering",
                                !.depth = Len(frames[LoaderThread])]
    /\ UNCHANGED <<sys_modules, currently_patched_packages, import_lock,
                   savers, last, call>>

\* green.py:175.  __enter__ returns the patched requests, which is bound
\* to requests; the context manager is dropped.
LoadRequestsEntered ==
    /\ loader.pc = "175 entering"
    /\ Entered
    /\ frames' = [frames EXCEPT ![LoaderThread] = Close(@)]
    /\ loader' = [loader EXCEPT
                      !.pc = "176",
                      !.requests = frames[LoaderThread][loader.depth + 1].yielded]
    /\ UNCHANGED <<sys_modules, currently_patched_packages, import_lock,
                   opened, savers, last, call>>

\* green.py:176-181.  _nr_instrument of requests.api and requests.sessions
\* (without newrelic: pass); the module is loaded.
LoadInstrument ==
    /\ LoaderAt("176")
    /\ loader' = [loader EXCEPT !.pc = "loaded"]
    /\ UNCHANGED <<sys_modules, currently_patched_packages, import_lock,
                   frames, opened, savers, last, call>>

LoadNext ==
    \/ LoadTryHttpClient
    \/ LoadPatchHttplib
    \/ LoadHttplibEntered
    \/ LoadTryHttplib2
    \/ LoadWithHttplib
    \/ LoadWithBody
    \/ LoadTryRequests
    \/ LoadPatchRequests
    \/ LoadRequestsEntered
    \/ LoadInstrument
    \/ CreateSaver(LoaderThread)
    \/ CheckGuard(LoaderThread)
    \/ InstallGuard(LoaderThread)
    \/ SaveOriginal(LoaderThread)
    \/ DiscoverReturns(LoaderThread)
    \/ FreezeNew(LoaderThread)
    \/ EvictDescendants(LoaderThread)
    \/ PatchReturns(LoaderThread)
    \/ PatchRaises(LoaderThread)
    \/ EvictUnpatched(LoaderThread)
    \/ Yield(LoaderThread)
    \/ ReleaseGuard(LoaderThread)
    \/ Restore(LoaderThread)

\* A process imports ss_eventlet.green.
SpecLoad == LoadInit /\ [][LoadNext]_vars

(* ----------------------------- claims ---------------------------------- *)

\* The frames of all threads, as <<thread, index>> pairs.
AllFrames == {<<t, k>> : t \in Threads, k \in 1..MaxScopes} \cap
             {p \in Threads \X (1..MaxScopes) : p[2] <= Len(frames[p[1]])}

\* A call that has ended (last is not the initial record).
Ended == last.raised # "no call"

C2_LineagePatchedWhileOpen ==
    /\ \A p \in AllFrames :
          LET f == frames[p[1]][p[2]] IN
          f.pc = "open" =>
              /\ \A name \in Lineage(f) :
                    /\ name \in DOMAIN sys_modules
                    /\ name \in DOMAIN f.produced
                    /\ sys_modules[name] = f.produced[name]
              /\ f.yielded = sys_modules[f.module_name]
    /\ (Ended /\ last.entered) =>
          \A k \in 1..Len(last.ancestors) :
              Get(last.post, last.ancestors[k]) = Get(last.pre, last.ancestors[k])

\* C2 witness: a scope for a.b is open over a registry that had a and a.b
\* registered: both are bound to patched modules that are not the entry
\* objects.
C2_Witness ==
    \E p \in AllFrames :
        LET f == frames[p[1]][p[2]] IN
        /\ f.pc = "open" /\ f.module_name = nAB
        /\ nA \in DOMAIN f.pre /\ nAB \in DOMAIN f.pre
        /\ sys_modules[nA] # f.pre[nA]
        /\ sys_modules[nAB] # f.pre[nAB]
        /\ f.yielded = sys_modules[nAB]

\* C3: a call made inside an open scope of the same root gets no further
\* than the guard check, ends with RuntimeError, and leaves sys.modules as
\* it was before the call.
C3_SameRootNestingRejected ==
    /\ \A t \in Threads : \A i, j \in 1..Len(frames[t]) :
          (/\ i < j
           /\ frames[t][i].pc = "open"
           /\ root_module(frames[t][i]) = root_module(frames[t][j])) =>
              /\ \/ frames[t][j].pc \in {"saver", "check"}
                 \/ /\ frames[t][j].pc = "restore"
                    /\ frames[t][j].raised = "RuntimeError"
              /\ frames[t][j].pc # "saver" => sys_modules = frames[t][j].pre
    /\ (Ended /\ last.raised = "RuntimeError") => last.post = last.pre

\* C3 witness: a call has ended with RuntimeError while a scope of the same
\* root is still open with its patched modules installed.
C3_Witness ==
    /\ Ended /\ last.raised = "RuntimeError"
    /\ \E p \in AllFrames :
          LET f == frames[p[1]][p[2]] IN
          /\ f.pc = "open"
          /\ root_module(f) = last.ancestors[1]
          /\ f.module_name # last.module_name
          /\ sys_modules[f.module_name] = f.yielded

\* Every lineage name of frame f is bound to the module the provider
\* returned for it.
LineagePatched(f) ==
    \A name \in Lineage(f) :
        /\ name \in DOMAIN sys_modules
        /\ name \in DOMAIN f.produced
        /\ sys_modules[name] = f.produced[name]

\* name is root or nested under root.
Under(name, root) == name = root \/ StartsWith(name, root \o <<Dot>>)

\* The roots of the scopes that were open together with the scope of record
\* r (frame or ended call), other than its own root.
OtherRoots(r) == (r.inner_roots \cup r.outer_roots) \ {r.ancestors[1]}

\* After the ended call, every key under its root or under the roots of the
\* scopes that were open together with it is bound as before any of them
\* began.
RootsRestored ==
    \A name \in (DOMAIN last.post) \cup (DOMAIN last.base) :
        (\E root \in OtherRoots(last) \cup {last.ancestors[1]} :
             Under(name, root)) =>
            Get(last.post, name) = Get(last.base, name)

\* C4 as stated: scopes of different roots of one caller, closed in any
\* order: an open scope keeps its patched lineage whatever the other scope
\* does, and when the last of them has ended the keys under their roots are
\* bound as before the first began.
C4_AnyOrder ==
    /\ \A p \in AllFrames :
          LET f == frames[p[1]][p[2]] IN
          (f.pc = "open" /\ OtherRoots(f) # {}) => LineagePatched(f)
    /\ (/\ Ended /\ last.entered /\ last.alone
        /\ OtherRoots(last) # {} /\ ~last.inner_raised) => RootsRestored

\* C4 amended: the same for scopes that are properly nested (the scope
\* opened later is closed first).
C4_ProperlyNested ==
    /\ \A p \in AllFrames :
          LET f == frames[p[1]][p[2]] IN
          (f.pc = "open" /\ OtherRoots(f) # {} /\ ~f.disordered) =>
              LineagePatched(f)
    /\ (/\ Ended /\ last.entered /\ last.alone /\ ~last.disordered
        /\ OtherRoots(last) # {} /\ ~last.inner_raised) => RootsRestored

\* C4 witness: a scope for a.b has ended inside which a scope for b was
\* opened and closed; a, a.b and b were registered at the start and are the
\* same objects again.
C4_Witness ==
    /\ Ended /\ last.entered /\ last.alone /\ ~last.disordered
    /\ ~last.inner_raised
    /\ last.module_name = nAB /\ last.inner_roots = {nB}
    /\ {nA, nAB, nB} \subseteq DOMAIN last.base
    /\ \A name \in {nA, nAB, nB} : last.post[name] = Orig(name)

\* The cache keys of the lineage elements the ended call produced.
ProducedCacheKeys == {PatchedName(name) : name \in DOMAIN last.produced}

\* C5 as stated: when the provider raised after the first lineage element
\* was installed, the whole registry is as it was at scope entry.
C5_WholeRegistryRestored ==
    (Ended /\ last.raised = "ProviderError" /\ DOMAIN last.produced # {}) =>
        last.post = last.pre

\* C5 amended: when the provider raised after the first lineage element was
\* installed, every key other than the provider's cache keys for the
\* elements it produced is bound as at scope entry (no lineage entry and no
\* module imported by the provider remains), and those cache keys are
\* registered.
C5_RestoredButCache ==
    (Ended /\ last.raised = "ProviderError" /\ DOMAIN last.produced # {}) =>
        /\ \A name \in ((DOMAIN last.post) \cup (DOMAIN last.pre))
                           \ ProducedCacheKeys :
              Get(last.post, name) = Get(last.pre, name)
        /\ ProducedCacheKeys \subseteq DOMAIN last.post

\* C5 witness: the provider raised for a.b after it had produced a, in a
\* registry without a, a.c and the cache entry of a: a and a.c are absent
\* again and the cache entry stays.
C5_Witness ==
    /\ Ended /\ last.raised = "ProviderError"
    /\ last.module_name = nAB /\ DOMAIN last.produced = {nA}
    /\ nA \notin DOMAIN last.pre /\ PatchedName(nA) \notin DOMAIN last.pre
    /\ nA \notin DOMAIN last.post /\ nAC \notin DOMAIN last.post
    /\ last.post[PatchedName(nA)] = last.produced[nA]

\* C6: a call that installed the guard entry of its root deletes it once,
\* whatever ends the call, and a call that did not install it never deletes
\* it; the entry of a root is there exactly while a call holds it, so after
\* the scope a new scope of the root passes the guard check.
C6_GuardReleasedOnce ==
    /\ Ended =>
          /\ last.releases = (IF last.acquired THEN 1 ELSE 0)
          /\ last.acquired => last.ancestors[1] \notin DOMAIN last.guard_after
    /\ \A p \in AllFrames :
          LET f == frames[p[1]][p[2]] IN
          /\ f.releases = (IF f.acquired /\ f.pc = "restore" THEN 1 ELSE 0)
          /\ (f.acquired /\ f.releases = 0) =>
                /\ root_module(f) \in DOMAIN currently_patched_packages
                /\ currently_patched_packages[root_module(f)] = f.module_name
    /\ \A root \in DOMAIN currently_patched_packages :
          \E p \in AllFrames :
              LET f == frames[p[1]][p[2]] IN
              root_module(f) = root /\ f.acquired /\ f.releases = 0

\* C6 witness: a scope of root a ended by a failure of the discovery import
\* after it had installed the guard entry, and a later call holds the guard
\* of root a.
C6_Witness ==
    /\ Ended /\ last.raised = "ImportError"
    /\ last.acquired /\ last.releases = 1 /\ last.ancestors[1] = nA
    /\ \E p \in AllFrames :
          LET f == frames[p[1]][p[2]] IN
          /\ root_module(f) = nA /\ f.acquired /\ f.serial > last.serial
          /\ currently_patched_packages[nA] = f.module_name

\* Frame f has a lineage name bound to the module it installed for it.
HoldsPatched(f) ==
    \E name \in Lineage(f) :
        /\ name \in DOMAIN f.produced
        /\ name \in DOMAIN sys_modules
        /\ sys_modules[name] = f.produced[name]

\* C7 as stated: there is no state in which the guard has no entry for the
\* root of a scope while keys under that root still hold the scope's patched
\* modules.
C7_RestoreBeforeRelease ==
    \A p \in AllFrames :
        LET f == frames[p[1]][p[2]] IN
        (f.acquired /\ root_module(f) \notin DOMAIN currently_patched_packages)
            => ~HoldsPatched(f)

\* C7 amended: on scope exit the guard entry is deleted first and the
\* registry is restored after it, and both happen while the exiting thread
\* holds the import lock: the guard has no entry for the root of a scope
\* that still holds patched modules only between the two finally clauses,
\* and the import lock is never free or another thread's while a scope
\* holds patched modules.
C7_ReleaseThenRestoreUnderLock ==
    \A p \in AllFrames :
        LET f == frames[p[1]][p[2]] IN
        /\ (f.pc = "restore" /\ f.acquired) =>
              root_module(f) \notin DOMAIN currently_patched_packages
        /\ HoldsPatched(f) =>
              /\ import_lock.owner = p[1]
              /\ root_module(f) \notin DOMAIN currently_patched_packages
                    => f.pc = "restore"

\* C7 witness: a scope is between the two finally clauses: its guard entry
\* is gone and its patched modules are still installed.
C7_Witness ==
    \E p \in AllFrames :
        LET f == frames[p[1]][p[2]] IN
        /\ f.pc = "restore" /\ f.acquired /\ f.yielded # None
        /\ root_module(f) \notin DOMAIN currently_patched_packages
        /\ LineagePatched(f)
        /\ import_lock.owner = p[1]

\* The names the claim calls invalid: the empty name and null.
EmptyOrNull == {EmptyName, NoneName}

\* C8: a call with an empty or None name ends with ValueError in the step
\* that makes it, and that step changes neither sys.modules nor the guard
\* nor the import lock; no call with such a name gets a frame.
C8_InvalidNameNoMutation ==
    [][opened' # opened =>
          \/ \E t \in Threads :
                /\ Len(frames'[t]) = Len(frames[t]) + 1
                /\ frames'[t][Len(frames'[t])].module_name \notin EmptyOrNull
                /\ last' = last
          \/ /\ \A t \in Threads : Len(frames'[t]) = Len(frames[t])
             /\ last'.module_name \in EmptyOrNull
             /\ last'.raised = "ValueError"
             /\ sys_modules' = sys_modules
             /\ currently_patched_packages' = currently_patched_packages
             /\ import_lock' = import_lock]_vars

\* C8 witness: a call with name None has ended with ValueError inside an
\* open scope, whose patched modules, guard entry and lock are in place.
C8_Witness ==
    /\ Ended /\ last.raised = "ValueError" /\ last.module_name = NoneName
    /\ ~last.alone
    /\ \E p \in AllFrames :
          LET f == frames[p[1]][p[2]] IN
          /\ f.pc = "open" /\ LineagePatched(f)
          /\ root_module(f) \in DOMAIN currently_patched_packages
          /\ import_lock = [owner |-> p[1], count |-> 1]

\* Frame f holds the guard of its root: it passed the check and has not
\* deleted the entry.
HoldsGuard(f) == f.pc \notin {"saver", "check"} /\ f.raised # "RuntimeError"
                 /\ f.releases = 0

\* C9: whatever the interleaving of the threads, no two calls of the same
\* root are past the guard check at the same time.
C9_OneScopePerRoot ==
    \A p, q \in AllFrames :
        (/\ p # q
         /\ root_module(frames[p[1]][p[2]]) = root_module(frames[q[1]][q[2]])
         /\ HoldsGuard(frames[p[1]][p[2]]))
            => ~HoldsGuard(frames[q[1]][q[2]])

\* C9 witness: two threads have asked for the same root; one has its scope
\* open and the other has not passed the guard check.
C9_Witness ==
    \E p, q \in AllFrames :
        /\ p[1] # q[1]
        /\ root_module(frames[p[1]][p[2]]) = root_module(frames[q[1]][q[2]])
        /\ frames[p[1]][p[2]].pc = "open"
        /\ frames[q[1]][q[2]].pc = "saver"

\* Thread t has a call that has created its saver and not yet restored.
HoldsSaver(t) == \E k \in 1..Len(frames[t]) : frames[t][k].pc # "saver"

\* Thread t has asked for a root other than those of the scopes thread u
\* has open, and is about to create its saver.
AsksOtherRoot(t, u) ==
    /\ t # u
    /\ At(t, "saver")
    /\ \E k \in 1..Len(frames[u]) : frames[u][k].pc = "open"
    /\ \A k \in 1..Len(frames[u]) :
          root_module(frames[u][k]) # root_module(Frame(t))

\* C10 as stated: a thread that asks for a root while another thread has a
\* scope of another root open does not wait: it can create its saver.
C10_DisjointRootsDoNotWait ==
    \A t, u \in Threads : AsksOtherRoot(t, u) => LockFree(t)

\* C10 amended: scopes of different threads are never open at the same
\* time, whatever their roots: a thread that asks for a root while another
\* thread holds a saver waits at the import lock until that thread has
\* restored; only the thread that holds the lock can open a scope of another
\* root inside its open scope.
C10_OtherThreadsWait ==
    /\ \A t, u \in Threads : (t # u /\ HoldsSaver(t)) => ~HoldsSaver(u)
    /\ \A t, u \in Threads :
          (t # u /\ HoldsSaver(u) /\ At(t, "saver")) => ~LockFree(t)
    /\ \A t \in Threads : HoldsSaver(t) => import_lock.owner = t

\* C10 witness: thread 1 has a scope of a.b open and thread 2 has asked for
\* b and waits for the import lock.
C10_Witness ==
    /\ AsksOtherRoot(2, 1)
    /\ Frame(2).module_name = nB
    /\ frames[1][1].module_name = nAB /\ frames[1][1].pc = "open"
    /\ ~LockFree(2)

\* C11 as stated: a call made while a scope of the same root is open, by
\* the thread that has it open or by another thread, does not wait (it can
\* create its saver at once) and ends with RuntimeError: it never installs
\* the guard entry.
C11_AnyRequesterRejected ==
    /\ \A p \in AllFrames :
          LET f == frames[p[1]][p[2]] IN
          f.conflict # "none" =>
              /\ f.pc = "saver" => LockFree(p[1])
              /\ ~f.acquired
    /\ (Ended /\ last.conflict # "none") => last.raised = "RuntimeError"

\* C11 amended: a call made while a scope of the same root is open is
\* rejected with RuntimeError when the caller is the thread that has the
\* scope open; a call of another thread waits for the import lock while
\* that thread holds its saver, and once it has the lock the guard has no
\* entry for the root, so it is never rejected.
C11_SameThreadRejectedOthersWait ==
    /\ \A p \in AllFrames :
          LET f == frames[p[1]][p[2]] IN
          /\ f.conflict = "same thread" =>
                /\ f.pc = "saver" => LockFree(p[1])
                /\ ~f.acquired
                /\ f.pc \in {"saver", "check", "restore"}
          /\ f.conflict = "other thread" =>
                /\ (f.pc = "saver" /\ \E u \in Threads \ {p[1]} : HoldsSaver(u))
                       => ~LockFree(p[1])
                /\ f.pc = "check" =>
                       root_module(f) \notin DOMAIN currently_patched_packages
                /\ f.raised # "RuntimeError"
    /\ (Ended /\ last.conflict = "same thread") => last.raised = "RuntimeError"
    /\ (Ended /\ last.conflict = "other thread") => last.raised # "RuntimeError"

\* C11 witness: a call for a.b made while another thread had a scope of
\* root a open has opened its own scope and ended normally.
C11_Witness ==
    /\ Ended /\ last.conflict = "other thread"
    /\ last.module_name = nAB
    /\ last.entered /\ last.raised = "none" /\ last.acquired

\* Frame f belongs to a later scope of a name: the call that ended last was
\* an earlier scope of the same name.
Repeats(f) ==
    /\ Ended /\ last.entered
    /\ last.module_name = f.module_name
    /\ f.serial > last.serial

\* The modules registered in m that an import made in scope number serial
\* created.
CreatedIn(m, serial) == {name \in DOMAIN m : m[name][3] = serial}

\* C12 as stated: a later scope of a name performs no fresh discovery: the
\* un-patched import creates no module in it, and its extra protected keys
\* are those of the first scope.
C12_DiscoveryOnlyOnce ==
    \A p \in AllFrames :
        LET f == frames[p[1]][p[2]] IN
        Repeats(f) =>
            /\ f.pc = "freeze" => CreatedIn(sys_modules, f.serial) = {}
            /\ f.pc \in {"evict", "patch"} => f.new_modules = last.new_modules

\* C12 amended: the discovery pass is performed in every scope, first or
\* later: after it every lineage name is registered, a lineage name that
\* was absent at scope entry is bound to an un-patched module created in
\* this scope, and the extra protected keys are computed from it: they are
\* the names registered by this discovery other than the target, they are
\* no longer registered, and they are saved as absent.
C12_DiscoveryEveryScope ==
    \A p \in AllFrames :
        LET f == frames[p[1]][p[2]] IN
        /\ f.pc = "freeze" =>
              /\ Lineage(f) \subseteq DOMAIN sys_modules
              /\ \A name \in Lineage(f) \ DOMAIN f.pre :
                    sys_modules[name] = <<"plain", name, f.serial>>
              /\ CreatedIn(sys_modules, f.serial) = (DOMAIN sys_modules) \ DOMAIN f.pre
        /\ f.pc = "evict" =>
              /\ f.new_modules \cap DOMAIN sys_modules = {}
              /\ f.new_modules \cap DOMAIN f.pre = {}
              /\ f.module_name \notin f.new_modules
              /\ \A name \in f.new_modules : f.saved[name] = None
              /\ (Lineage(f) \ DOMAIN f.pre) \ {f.module_name}
                     \subseteq f.new_modules

\* C12 witness: the second scope of a.b has just made its discovery: a.b,
\* absent at scope entry although the provider has its patched module
\* cached, is bound to an un-patched module created in this scope.
C12_Witness ==
    \E p \in AllFrames :
        LET f == frames[p[1]][p[2]] IN
        /\ Repeats(f) /\ f.pc = "freeze" /\ f.module_name = nAB
        /\ PatchedName(nAB) \in DOMAIN f.pre
        /\ nAB \notin DOMAIN f.pre
        /\ sys_modules[nAB] = <<"plain", nAB, f.serial>>

\* C13: when a name is patched a second time after its first scope has
\* closed, every lineage name is bound in the second scope to the patched
\* module it was bound to in the first (the provider's cached module: the
\* target has its patched ancestors), and after each of the two scopes the
\* lineage names have their bindings from before it.
C13_SameLineageOnRepeat ==
    /\ \A p \in AllFrames :
          LET f == frames[p[1]][p[2]] IN
          (Repeats(f) /\ f.pc = "open") =>
              /\ \A name \in Lineage(f) :
                    /\ name \in DOMAIN sys_modules
                    /\ name \in DOMAIN last.produced
                    /\ sys_modules[name] = last.produced[name]
                    /\ sys_modules[name][1] = "patched"
                    /\ Get(last.post, name) = Get(last.pre, name)
              /\ f.yielded = last.yielded
    /\ (/\ Ended /\ last.entered
        /\ PatchedName(last.module_name) \in DOMAIN last.pre) =>
          \A name \in DOMAIN last.produced :
              Get(last.post, name) = Get(last.pre, name)

\* C13 witness: the second scope of a.b is open over a registry in which a
\* and a.b were absent: both are bound to the patched modules of the first
\* scope.
C13_Witness ==
    \E p \in AllFrames :
        LET f == frames[p[1]][p[2]] IN
        /\ Repeats(f) /\ f.pc = "open" /\ f.module_name = nAB
        /\ nA \notin DOMAIN f.pre /\ nAB \notin DOMAIN f.pre
        /\ sys_modules[nA] = last.produced[nA]
        /\ sys_modules[nAB] = last.produced[nAB]
        /\ nA \notin DOMAIN last.post /\ nAB \notin DOMAIN last.post

\* The number of separators in the string s.
Dots(s) == Cardinality({j \in 1..Len(s) : s[j] = Dot})

\* part is the string s up to, and without, one of its separators, or s
\* itself.
EndsAtSeparator(part, s) ==
    /\ Len(part) <= Len(s)
    /\ \A j \in 1..Len(part) : part[j] = s[j]
    /\ Len(part) = Len(s) \/ s[Len(part) + 1] = Dot

\* C14: for a non-empty name of k segments iter_ancestor_module_names
\* yields k names, the i-th being the first i segments joined by '.' (the
\* part of the name before its i-th separator), so the root comes first
\* and the name itself last; for the empty name and for None it raises
\* ValueError.
C14_AncestorsRootFirst ==
    call.fn = "iter_ancestor_module_names" =>
        IF call.module_name \in EmptyOrNull
        THEN call.raised = "ValueError"
        ELSE /\ call.raised = "none"
             /\ Len(call.result) = Dots(call.module_name) + 1
             /\ \A i \in 1..Len(call.result) :
                   /\ EndsAtSeparator(call.result[i], call.module_name)
                   /\ Dots(call.result[i]) = i - 1
             /\ call.result[Len(call.result)] = call.module_name

\* C14 witness: the ancestors of "a.b.a" are "a", "a.b" and "a.b.a".
C14_Witness ==
    /\ call.fn = "iter_ancestor_module_names"
    /\ call.module_name = <<"a", ".", "b", ".", "a">>
    /\ call.result = <<nA, nAB, <<"a", ".", "b", ".", "a">> >>

\* key is package followed by the separator and more.
BelowPackage(key, package) ==
    /\ Len(key) > Len(package)
    /\ \A j \in 1..Len(package) : key[j] = package[j]
    /\ key[Len(package) + 1] = Dot

\* C15: iter_descendent_module_names(package) yields the keys of
\* sys.modules that are package or start with package and the separator,
\* all of them and no other: not a key that starts with package without
\* the separator ("ab" for "a"), not one that ends with it ("x.a").
C15_DescendantsExactly ==
    call.fn = "iter_descendent_module_names" =>
        /\ call.result =
               {key \in DOMAIN sys_modules :
                    key = call.package \/ BelowPackage(key, call.package)}
        /\ call.package = nA => (nAb \notin call.result /\ nXA \notin call.result)

\* C15 witness: with the keys "a", "a.b", "ab" and "x.a" the descendants
\* of "a" are "a" and "a.b".
C15_Witness ==
    /\ call.fn = "iter_descendent_module_names"
    /\ call.package = nA
    /\ DOMAIN sys_modules = {nA, nAB, nAb, nXA}
    /\ call.result = {nA, nAB}

\* C16: after delete_sys_modules(names) none of the names is a key of
\* sys.modules and every other key is bound as before; the call does not
\* raise, also when a name is absent; a second call with the same names
\* changes nothing.
C16_DeleteIdempotent ==
    call.fn = "delete_sys_modules" =>
        /\ call.raised = "none"
        /\ call.names \cap DOMAIN sys_modules = {}
        /\ DOMAIN sys_modules = (DOMAIN call.before) \ call.names
        /\ \A key \in DOMAIN sys_modules : sys_modules[key] = call.before[key]
        /\ call.calls = 2 => sys_modules = call.first

\* C16 witness: "a" (registered) and "x" (absent) have been deleted twice
\* from a dictionary that holds "a" and "a.b": "a.b" alone is left.
C16_Witness ==
    /\ call.fn = "delete_sys_modules" /\ call.calls = 2
    /\ call.names = {nA, <<"x">>}
    /\ DOMAIN call.before = {nA, nAB}
    /\ DOMAIN sys_modules = {nAB}
    /\ sys_modules[nAB] = call.before[nAB]

\* C18: when the wrapped callable raises an eventlet timeout that is not an
\* instance of Exception, the wrapper raises an instance of
\* ss_eventlet.timeout.Timeout instead; every timeout the wrapper raises is
\* an instance of Exception and of eventlet.Timeout.
C18_TimeoutCastToException ==
    call.fn = "safe_timeouts" =>
        /\ (/\ call.inner.kind = "raise"
            /\ isinstance(call.inner.value, "eventlet.Timeout")
            /\ ~isinstance(call.inner.value, "Exception")) =>
               /\ call.outer.kind = "raise"
               /\ call.outer.value.class = "ss_eventlet.Timeout"
               /\ call.outer.value # call.inner.value
        /\ (/\ call.outer.kind = "raise"
            /\ isinstance(call.outer.value, "eventlet.Timeout")) =>
               isinstance(call.outer.value, "Exception")

\* C18 witness: the callable raised an instance of a subclass of
\* eventlet.Timeout that is not an Exception, and the wrapper raised a new
\* instance of ss_eventlet.timeout.Timeout.
C18_Witness ==
    /\ call.fn = "safe_timeouts"
    /\ call.inner = [kind |-> "raise",
                     value |-> [class |-> "SubTimeout", id |-> 1]]
    /\ call.outer = [kind |-> "raise", value |-> NewTimeout]
    /\ "Exception" \in Mro(call.outer.value.class)
    /\ "eventlet.Timeout" \in Mro(call.outer.value.class)

\* C19: in every other case the wrapper is transparent: it returns what
\* the callable returns, and it raises the very exception object the
\* callable raises when that is not an eventlet timeout or is an eventlet
\* timeout that is an Exception.
C19_WrapperTransparent ==
    call.fn = "safe_timeouts" =>
        /\ call.inner.kind = "return" => call.outer = call.inner
        /\ (/\ call.inner.kind = "raise"
            /\ \/ "eventlet.Timeout" \notin Mro(call.inner.value.class)
               \/ "Exception" \in Mro(call.inner.value.class)) =>
               /\ call.outer.kind = "raise"
               /\ call.outer.value = call.inner.value

\* C19 witness: the callable raised an instance of
\* ss_eventlet.timeout.Timeout and the wrapper raised the same object.
C19_Witness ==
    /\ call.fn = "safe_timeouts"
    /\ call.inner.kind = "raise"
    /\ call.inner.value = [class |-> "ss_eventlet.Timeout", id |-> 2]
    /\ call.outer = call.inner

\* C20: a call rejected by the guard check leaves the open scope as it
\* was: when the call has ended the guard entry of the root names the
\* target of the open scope and sys.modules is as before the call; the
\* open scope still has its patched lineage installed; and when the open
\* scope ends later, the keys it touched have their entry bindings again
\* and its guard entry is deleted.
C20_RejectionLeavesScopeIntact ==
    /\ (Ended /\ last.raised = "RuntimeError") =>
          /\ last.post = last.pre
          /\ ~last.acquired /\ last.releases = 0
          /\ \E p \in AllFrames :
                LET f == frames[p[1]][p[2]] IN
                /\ root_module(f) = last.ancestors[1]
                /\ f.inner_rejected
                /\ last.guard_after[last.ancestors[1]] = f.module_name
    /\ \A p \in AllFrames :
          LET f == frames[p[1]][p[2]] IN
          (f.inner_rejected /\ f.pc = "open") =>
              /\ LineagePatched(f)
              /\ f.yielded = sys_modules[f.module_name]
              /\ root_module(f) \in DOMAIN currently_patched_packages
              /\ currently_patched_packages[root_module(f)] = f.module_name
    /\ (Ended /\ last.entered /\ last.inner_rejected) =>
          /\ \A name \in (DOMAIN last.saved) \cup (DOMAIN last.produced) :
                Get(last.post, name) = Get(last.pre, name)
          /\ last.releases = 1
          /\ last.ancestors[1] \notin DOMAIN last.guard_after

\* C20 witness: a scope of a.b, inside which a call for a was rejected, has
\* ended normally: a and a.b are the modules registered before the scope
\* and the guard has no entry for a.
C20_Witness ==
    /\ Ended /\ last.entered /\ last.inner_rejected
    /\ last.raised = "none" /\ last.module_name = nAB
    /\ {nA, nAB} \subseteq DOMAIN last.pre
    /\ last.post[nA] = last.pre[nA] /\ last.post[nAB] = last.pre[nAB]
    /\ last.produced[nAB] # last.pre[nAB]
    /\ nA \notin DOMAIN last.guard_after

\* C17: when ss_eventlet.green has been loaded, every scope it opened has
\* been finalized (no call is left, the guard is empty, the import lock is
\* free) and every module that was registered before the load is bound to
\* the same object as before; the modules bound to httplib and requests
\* are patched modules, not the registered ones.
C17_LoadLeavesRegistry ==
    loader.pc = "loaded" =>
        /\ frames[LoaderThread] = <<>>
        /\ currently_patched_packages = EmptyDict
        /\ import_lock = [owner |-> NoThread, count |-> 0]
        /\ \A name \in DOMAIN loader.before :
              /\ name \in DOMAIN sys_modules
              /\ sys_modules[name] = loader.before[name]
        /\ loader.httplib[1] = "patched"
        /\ sys_modules[nHttpClient] # loader.httplib
        /\ nRequests \in loader.installed =>
              /\ loader.requests[1] = "patched"
              /\ sys_modules[nRequests] # loader.requests

\* C17 witness: the module has been loaded with httplib2 and requests
\* installed and http.client, httplib2 and requests registered before: the
\* three scopes have been opened and the registered modules are those of
\* before.
C17_Witness ==
    /\ loader.pc = "loaded" /\ opened = 3
    /\ {nHttpClient, nHttplib2, nRequests, nSocket} \subseteq DOMAIN loader.before
    /\ \A name \in DOMAIN loader.before : sys_modules[name] = Orig(name)
    /\ loader.httplib2[1] = "patched"
    /\ frames[LoaderThread] = <<>>

\* The frames of all threads, as records.
FrameRecords == {frames[p[1]][p[2]] : p \in AllFrames}

\* The names registered in m that are the root of the frame f or nested
\* under it.
UnderRoot(m, f) == {name \in DOMAIN m : Under(name, root_module(f))}

\* C21.  When a call reaches its yield, and as long as its scope is open, the
\* registered names equal to the root or nested under it are exactly the
\* names of the lineage of the requested module: every other descendant of
\* the root, among them the modules the provider registered as a side effect,
\* has been evicted.
C21_OnlyLineageUnderRoot ==
    \A f \in FrameRecords :
        f.pc \in {"yield", "open"} =>
            UnderRoot(sys_modules, f) = Lineage(f)

\* A call for a.b is at its yield over a registry that held a, a.b and a.c
\* when the call was made: a and a.b are bound to what the provider returned
\* and a.c is no longer registered.
C21_Witness ==
    \E f \in FrameRecords :
        /\ f.pc = "yield"
        /\ f.module_name = nAB
        /\ {nA, nAB, nAC} \subseteq DOMAIN f.pre
        /\ nAC \notin DOMAIN sys_modules
        /\ \A name \in {nA, nAB} : sys_modules[name] = f.produced[name]

DiscoveredIn(m, serial) ==
    {name \in DOMAIN m : m[name][1] = "plain" /\ m[name][3] = serial}

\* C23.  Every key the discovery import of a call added to the registry is
\* held by the call's saver once the import is over, whether it returned or
\* raised, and is absent from the registry when the call has ended, however
\* it ended.
C23_DiscoveryUndone ==
    /\ \A f \in FrameRecords :
          f.pc \in {"evict", "patch", "evict_unpatched", "yield", "open",
                    "release", "restore"} =>
              DiscoveredIn(sys_modules, f.serial) \subseteq DOMAIN f.saved
    /\ Ended => DiscoveredIn(last.post, last.serial) = {}

\* C23, the part that holds.  The discovery that returned: every key it
\* added is saved as absent by the freeze and is absent when the call has
\* ended normally, by an exception of the body or by an exception of the
\* provider.
C23_ReturnedDiscoveryUndone ==
    /\ \A f \in FrameRecords :
          f.raised # "ImportError" =>
              /\ \A name \in f.new_modules :
                    name \in DOMAIN f.saved /\ f.saved[name] = None
              /\ f.pc \in {"evict", "patch", "evict_unpatched", "yield",
                           "open", "release", "restore"} =>
                    DiscoveredIn(sys_modules, f.serial) \subseteq DOMAIN f.saved
    /\ (Ended /\ last.raised # "ImportError") =>
          /\ DiscoveredIn(last.post, last.serial) = {}
          /\ \A name \in last.new_modules : name \notin DOMAIN last.post

\* A call for a.b over a registry without a has ended with the ImportError
\* of its discovery import, and the a that import created is registered.
C23_Witness ==
    /\ Ended /\ last.raised = "ImportError"
    /\ last.module_name = nAB
    /\ nA \notin DOMAIN last.pre
    /\ nA \in DOMAIN last.post
    /\ last.post[nA] = <<"plain", nA, last.serial>>
    /\ nA \notin DOMAIN last.saved

\* The saver of frame f holds every name registered when the call was made,
\* the requested name and the new modules of the discovery, each with the
\* binding it had when the call was made.
SnapshotComplete(f) ==
    /\ DOMAIN f.saved = (DOMAIN f.pre) \cup f.new_modules \cup {f.module_name}
    /\ \A name \in DOMAIN f.saved : f.saved[name] = Get(f.pre, name)

\* C24.  When the provider is called for the first time in a call (for the
\* root), no name equal to the root or nested under it is registered, so the
\* provider finds no stale module; and the snapshot was complete before that
\* eviction: it is complete while the names under the root are still
\* registered, and it is the same from then on.
C24_EvictedBeforeProduction ==
    \A f \in FrameRecords :
        /\ (f.pc = "patch" /\ f.i = 1) =>
              /\ UnderRoot(sys_modules, f) = {}
              /\ SnapshotComplete(f)
        /\ f.pc = "evict" =>
              /\ SnapshotComplete(f)
              /\ UnderRoot(f.pre, f) \subseteq DOMAIN sys_modules
        /\ f.pc \in {"patch", "evict_unpatched", "yield", "open"} =>
              SnapshotComplete(f)

\* A call for a.b made over a registry that held a, a.b and a.c is about to
\* call the provider for a: none of the three is registered, and the saver
\* holds the three original modules.
C24_Witness ==
    \E f \in FrameRecords :
        /\ f.pc = "patch" /\ f.i = 1
        /\ f.module_name = nAB
        /\ {nA, nAB, nAC} \subseteq DOMAIN f.pre
        /\ UnderRoot(sys_modules, f) = {}
        /\ \A name \in {nA, nAB, nAC} : f.saved[name] = f.pre[name]

\* The names of the lineage of frame f the provider has been called for.
Produced(f) == {f.ancestors[k] : k \in 1..(f.i - 1)}

\* C25.  The provider is called once for each name of the lineage, from the
\* root to the requested name (each name of ancestors lies under the one
\* before it), and each result is bound before the next call: whenever the
\* provider is about to be called for the i-th name, results are recorded
\* for the first i - 1 names and no others, and each of those names is bound
\* in the registry to its result, a patched module.  When the loop is over
\* the results are those of the whole lineage.
C25_ProducedInOrder ==
    \A f \in FrameRecords :
        /\ \A k \in 1..(Len(f.ancestors) - 1) :
              /\ Under(f.ancestors[k + 1], f.ancestors[k])
              /\ f.ancestors[k + 1] # f.ancestors[k]
        /\ f.pc = "patch" =>
              /\ f.i \in 1..Len(f.ancestors)
              /\ DOMAIN f.produced = Produced(f)
              /\ \A name \in Produced(f) :
                    /\ name \in DOMAIN sys_modules
                    /\ sys_modules[name] = f.produced[name]
                    /\ sys_modules[name][1] = "patched"
        /\ f.pc \in {"evict_unpatched", "yield"} =>
              /\ f.i = Len(f.ancestors) + 1
              /\ DOMAIN f.produced = Lineage(f)

\* A call for a.b made over a registry without a is about to call the
\* provider for a.b; a is bound to the patched module the provider returned
\* for it.
C25_Witness ==
    \E f \in FrameRecords :
        /\ f.pc = "patch" /\ f.i = 2
        /\ f.module_name = nAB
        /\ nA \notin DOMAIN f.pre
        /\ DOMAIN f.produced = {nA}
        /\ sys_modules[nA] = f.produced[nA]
        /\ sys_modules[nA][1] = "patched"

\* The number of times thread t holds the import lock.
HoldCount(t) == IF import_lock.owner = t THEN import_lock.count ELSE 0

\* The calls of thread t that have created their saver and have not yet
\* restored it.
Holding(t) == {k \in 1..Len(frames[t]) : frames[t][k].pc # "saver"}

\* C26.  The import lock is balanced: a thread holds it once for each of its
\* calls that has created its saver and has not yet restored it, whatever
\* the path the call takes (a call rejected by the guard, a failed discovery
\* and a failed provider included), so while a thread runs the caller's code
\* its hold count is the number of scopes it has open, and it is zero when
\* it has none; the lock has an owner exactly when its count is not zero.
C26_LockBalanced ==
    /\ \A t \in Threads :
          /\ HoldCount(t) = Cardinality(Holding(t))
          /\ InCaller(t) => HoldCount(t) = Len(frames[t])
          /\ frames[t] = <<>> => import_lock.owner # t
    /\ import_lock.owner = NoThread <=> import_lock.count = 0
    /\ import_lock.owner \in Threads \cup {NoThread}
    /\ (Ended /\ last.raised # "ValueError" /\ last.alone) =>
          last.lock_after = [owner |-> NoThread, count |-> 0]

\* A call nested in an open scope was rejected by the guard and has ended:
\* the thread runs the body of its one open scope and holds the lock once.
C26_Witness ==
    /\ Ended /\ last.raised = "RuntimeError"
    /\ \E t \in Threads :
          /\ InCaller(t)
          /\ Len(frames[t]) = 1
          /\ import_lock = [owner |-> t, count |-> 1]

\* C27.  Under fair scheduling, with bodies, imports and provider calls
\* that terminate: a thread that has calls (one waiting for the import lock,
\* one being set up, an open scope) eventually has none and holds no lock,
\* each call having ended with its error or having yielded and been
\* finalized; and in no reachable state with a call in progress or a scope
\* open is every thread unable to take a step (a thread in the discovery
\* import or in a provider call is able to).
C27_EveryRequestFinalized ==
    /\ \A t \in Threads :
          (frames[t] # <<>>) ~> (frames[t] = <<>> /\ HoldCount(t) = 0)
    /\ []((\E t \in Threads : frames[t] # <<>>) =>
             \E t \in Threads : \/ ENABLED Proceeds(t)
                                \/ At(t, "discover")
                                \/ At(t, "patch"))

\* A thread had to wait for the import lock while another thread's scope of
\* the same root was open, entered its own scope afterwards, and every call
\* has ended: no thread has a call, the lock is free and the guard is empty.
C27_Witness ==
    /\ Ended /\ last.conflict = "other thread" /\ last.entered
    /\ last.raised = "none"
    /\ \A t \in Threads : frames[t] = <<>>
    /\ import_lock.count = 0
    /\ currently_patched_packages = EmptyDict

====
